---- MODULE Spec2Model ----
(***************************************************************************)
(* Model of the PDF Q&A backend: the text extractor (pdf_processor.py),    *)
(* the question-answering engine (qa_engine.py) and the HTTP handlers over *)
(* the document store and the uploads directory (main.py, models.py).      *)
(*                                                                         *)
(* Strings are sequences of one-character strings, so that len(), strip(), *)
(* split('\n'), join and endswith() are computed rather than assumed.      *)
(***************************************************************************)
EXTENDS Integers, Sequences, FiniteSets, TLC

VARIABLES
    docs,     \* the documents table: id -> row
    nextId,   \* the next value of the table's id sequence
    files,    \* the uploads directory: path -> file
    now,      \* the clock, in ticks
    req,      \* the HTTP requests: their handler's position, locals, response
    ext,      \* one call of PDFProcessor.extract_text: its file, its result
    qa        \* one call of a QAEngine method: its inputs, its result

sysvars == <<docs, nextId, files, now, req>>

vars == <<docs, nextId, files, now, req, ext, qa>>

(***************************************************************************)
(* Python string primitives                                                *)
(***************************************************************************)
NL == "\n"

\* the characters str.strip() removes that occur in the modelled alphabet
Whitespace == {" ", NL, "\t"}

Min(a, b) == IF a < b THEN a ELSE b

Digits == <<"0", "1", "2", "3", "4", "5", "6", "7", "8", "9">>

RECURSIVE LStrip(_)
LStrip(s) ==
    IF s # <<>> /\ Head(s) \in Whitespace THEN LStrip(Tail(s)) ELSE s

RECURSIVE RStrip(_)
RStrip(s) ==
    IF s # <<>> /\ s[Len(s)] \in Whitespace
        THEN RStrip(SubSeq(s, 1, Len(s) - 1))
        ELSE s

\* str.strip()
Strip(s) == RStrip(LStrip(s))

\* s[:n]
Take(s, n) == SubSeq(s, 1, Min(n, Len(s)))

\* sep.join(parts)
RECURSIVE Join(_, _)
Join(parts, sep) ==
    IF parts = <<>> THEN <<>>
    ELSE IF Len(parts) = 1 THEN parts[1]
    ELSE parts[1] \o sep \o Join(Tail(parts), sep)

\* s.split('\n'): the maximal newline-free runs of s, empty runs included
RECURSIVE SplitFrom(_, _)
SplitFrom(s, cur) ==
    IF s = <<>> THEN <<cur>>
    ELSE IF Head(s) = NL THEN <<cur>> \o SplitFrom(Tail(s), <<>>)
    ELSE SplitFrom(Tail(s), Append(cur, Head(s)))

SplitLines(s) == SplitFrom(s, <<>>)

\* variant: only the lengths are compared
EndsWithLength(s, suffix) == Len(s) >= Len(suffix)

\* s.endswith(suffix)
EndsWith(s, suffix) ==
    /\ Len(s) >= Len(suffix)
    /\ SubSeq(s, Len(s) - Len(suffix) + 1, Len(s)) = suffix

\* needle in hay
Contains(hay, needle) ==
    \E i \in 0..(Len(hay) - Len(needle)) :
        SubSeq(hay, i + 1, i + Len(needle)) = needle

(***************************************************************************)
(* pdf_processor.py: PDFProcessor.extract_text                             *)
(*                                                                         *)
(* A path on disk is either absent or a file [readable, pdf]; a pdf is     *)
(* [valid, pages]: PdfReader raises on an invalid one.  A page is          *)
(* [kind, text]: page.extract_text() returns text ("text"), returns None   *)
(* ("none") or raises ("raise").                                           *)
(***************************************************************************)
Absent == [exists |-> FALSE]

File(readable, pdf) == [exists |-> TRUE, readable |-> readable, pdf |-> pdf]

Pdf(pages) == [valid |-> TRUE, pages |-> pages]

MalformedPdf == [valid |-> FALSE, pages |-> <<>>]

TextPage(t) == [kind |-> "text", text |-> t]
NonePage    == [kind |-> "none", text |-> <<>>]
RaisePage   == [kind |-> "raise", text |-> <<>>]

Ok(v)          == [tag |-> "ok", value |-> v]
Raised(t, msg) == [tag |-> t, value |-> msg]

\* `page.extract_text() or ""`
PageText(page) == IF page.kind = "text" THEN page.text ELSE <<>>

\* variant: the page text is appended without its newline
PageStepNoNewline(text, page) ==
    IF page.kind = "raise" THEN text
    ELSE text \o PageText(page)

\* one iteration of the page loop: a raising page is logged and skipped
PageStep(text, page) ==
    IF page.kind = "raise" THEN text
    ELSE text \o PageText(page) \o <<NL>>

\* variant: the first raising page ends the loop
RECURSIVE PageLoopAbort(_, _)
PageLoopAbort(pages, text) ==
    IF pages = <<>> THEN text
    ELSE IF Head(pages).kind = "raise" THEN text
    ELSE PageLoopAbort(Tail(pages), PageStep(text, Head(pages)))

\* `for i, page in enumerate(reader.pages)` starting from text = ""
RECURSIVE PageLoop(_, _)
PageLoop(pages, text) ==
    IF pages = <<>> THEN text
    ELSE PageLoop(Tail(pages), PageStep(text, Head(pages)))

\* variant: a PDF without pages is an error
ExtractBodyNoPages(f) ==
    IF ~f.exists THEN Raised("FileNotFoundError", <<"PDF file not found">>)
    ELSE IF ~f.readable THEN Raised("PermissionError", <<"No read permission">>)
    ELSE IF ~f.pdf.valid THEN Raised("PdfReadError", <<"malformed PDF">>)
    ELSE IF Len(f.pdf.pages) = 0 THEN Raised("ValueError", <<"PDF has no pages">>)
    ELSE Ok(Strip(PageLoop(f.pdf.pages, <<>>)))

\* the body of the try block: a value returned or an exception raised
ExtractBody(f) ==
    IF ~f.exists THEN Raised("FileNotFoundError", <<"PDF file not found">>)
    ELSE IF ~f.readable THEN Raised("PermissionError", <<"No read permission">>)
    ELSE IF ~f.pdf.valid THEN Raised("PdfReadError", <<"malformed PDF">>)
    ELSE IF Len(f.pdf.pages) = 0 THEN Ok(<<>>)
    ELSE Ok(Strip(PageLoop(f.pdf.pages, <<>>)))

\* the except clauses: FileNotFoundError is re-raised, every other
\* exception is replaced by Exception("Error processing PDF: ...")
extract_text(f) ==
    LET r == ExtractBody(f) IN
    IF r.tag = "ok" THEN r
    ELSE IF r.tag = "FileNotFoundError" THEN r
    ELSE Raised("Exception", <<"Error processing PDF: ">> \o r.value)

(***************************************************************************)
(* main.py, models.py: the state the handlers share                        *)
(***************************************************************************)
\* requests the model follows, numbered in order of arrival
NumRequests == 3
\* the clock stops at MaxTime ticks
MaxTime == 2
\* datetime.now() is finer than the "%Y%m%d_%H%M%S" format: ticks per second
TicksPerSecond == 2

Reqs == 1..NumRequests

EmptyMap == <<>>

\* a map with key k set to v, and with key k removed
Put(map, k, v) == [x \in DOMAIN map \cup {k} |-> IF x = k THEN v ELSE map[x]]
Drop(map, k) == [x \in DOMAIN map \ {k} |-> map[x]]

\* what is at a path of the uploads directory
FileAt(fs, path) == IF path \in DOMAIN fs THEN fs[path] ELSE Absent

\* a request no handler has been entered for
Idle ==
    [kind |-> "none", pc |-> "done", id |-> 0, name |-> <<>>,
     payload |-> MalformedPdf, fname |-> <<>>, path |-> <<>>, text |-> <<>>,
     question |-> <<>>, status |-> 0, detail |-> <<>>, body |-> <<>>,
     log |-> <<>>, sent |-> <<>>, after |-> {}]

\* an empty table, an empty uploads directory, no request yet
SysIdle ==
    /\ docs = EmptyMap
    /\ nextId = 1
    /\ files = EmptyMap
    /\ now = 0
    /\ req = [r \in Reqs |-> Idle]

(***************************************************************************)
(* Inputs of the extractor                                                 *)
(***************************************************************************)
MaxPages == 3

Hello == <<"H", "e", "l", "l", "o">>
World == <<"W", "o", "r", "l", "d">>
Padded == <<" ", "x", NL>>

PageSet == {TextPage(Hello), TextPage(World), TextPage(Padded), NonePage, RaisePage}

RECURSIVE SeqsUpTo(_, _)
SeqsUpTo(S, n) ==
    IF n = 0 THEN {<<>>}
    ELSE LET shorter == SeqsUpTo(S, n - 1) IN
         shorter \cup {Append(s, x) : s \in {t \in shorter : Len(t) = n - 1}, x \in S}

ExtractInputs ==
    {Absent, File(FALSE, Pdf(<<TextPage(Hello)>>)), File(TRUE, MalformedPdf),
     File(FALSE, MalformedPdf)}
    \cup {File(TRUE, Pdf(ps)) : ps \in SeqsUpTo(PageSet, MaxPages)}

NoCall == [tag |-> "none", value |-> <<>>]

QaIdle == [op |-> "none", done |-> FALSE]

ExtInit ==
    /\ ext \in {[file |-> f, result |-> NoCall] : f \in ExtractInputs}
    /\ qa = QaIdle
    /\ SysIdle

\* the caller invokes extract_text on the file
ExtractCall ==
    /\ ext.result = NoCall
    /\ ext' = [ext EXCEPT !.result = extract_text(ext.file)]
    /\ UNCHANGED <<qa, sysvars>>

ExtNext == ExtractCall

SpecExtract == ExtInit /\ [][ExtNext]_vars

(***************************************************************************)
(* qa_engine.py: QAEngine                                                  *)
(***************************************************************************)
ChunkSize == 1000
ChunkOverlap == 200
ContextLimit == 30000
ChunkLimit == 5
QuestionLimit == 7

\* RecursiveCharacterTextSplitter(chunk_size, chunk_overlap).split_text on a
\* text that contains none of the separators "\n\n", "\n", " ": the splitter
\* falls through to the empty separator and merges single characters into
\* windows of chunk_size that restart chunk_overlap characters back.  Every
\* text longer than ContextLimit in this model is of that kind.
RECURSIVE SplitWindows(_, _)
SplitWindows(text, start) ==
    IF Len(text) - start <= ChunkSize
        THEN <<SubSeq(text, start + 1, Len(text))>>
        ELSE <<SubSeq(text, start + 1, start + ChunkSize)>>
                 \o SplitWindows(text, start + ChunkSize - ChunkOverlap)

split_text(text) == IF text = <<>> THEN <<>> ELSE SplitWindows(text, 0)

\* variant: a text of exactly ContextLimit characters is chunked too
NeedsChunkingInclusive(text) == Len(text) >= ContextLimit

\* `if len(text) > 30000`
NeedsChunking(text) == Len(text) > ContextLimit

\* variant: every chunk is joined, not the first five
WorkingTextAllChunks(text) ==
    IF NeedsChunking(text)
        THEN [text |-> Join(split_text(text), <<NL>>), splits |-> 1]
        ELSE [text |-> text, splits |-> 0]

\* the text the prompt embeds, and how many times the splitter ran
WorkingText(text) ==
    IF NeedsChunking(text)
        THEN [text |-> Join(Take(split_text(text), ChunkLimit), <<NL>>), splits |-> 1]
        ELSE [text |-> text, splits |-> 0]

\* the two f-string templates: the fixed wording is the template's name,
\* the interpolated values are kept verbatim
AnswerPrompt(text, question) ==
    [template |-> "answer", text |-> text, question |-> question]

QuestionsPrompt(text) ==
    [template |-> "questions", text |-> text, question |-> <<>>]

\* What the external model does with one request: it returns a response
\* whose .text is readable ("ok"), raises from generate_content ("raise"),
\* or returns a response whose .text raises ("notext").
ModelOk(text)     == [kind |-> "ok", text |-> text, cause |-> <<>>]
ModelRaise(cause) == [kind |-> "raise", text |-> <<>>, cause |-> cause]
ModelNoText(cause) == [kind |-> "notext", text |-> <<>>, cause |-> cause]

\* variant: a failed call is repeated once
InvokeModelRetry(prompt, outcome) ==
    [sent  |-> IF outcome.kind = "ok" THEN <<prompt>> ELSE <<prompt, prompt>>,
     reply |-> IF outcome.kind = "ok" THEN Ok(outcome.text)
               ELSE Raised("ModelError", outcome.cause)]

\* `response = self.model.generate_content(prompt)` and `response.text`:
\* the prompts the model received and the text or the exception obtained
InvokeModel(prompt, outcome) ==
    [sent  |-> <<prompt>>,
     reply |-> IF outcome.kind = "ok" THEN Ok(outcome.text)
               ELSE Raised("ModelError", outcome.cause)]

\* `except Exception as e: raise Exception(f"<prefix>{str(e)}")`
Wrap(prefix, reply) == Raised("Exception", <<prefix>> \o reply.value)

get_answer(text, question, outcome) ==
    LET w == WorkingText(text)
        m == InvokeModel(AnswerPrompt(w.text, question), outcome)
    IN  [splits |-> w.splits,
         sent   |-> m.sent,
         result |-> IF m.reply.tag = "ok"
                        THEN Ok(Strip(m.reply.value))
                        ELSE Wrap("Error getting answer: ", m.reply)]

\* `[q.strip() for q in questions_text.split('\n') if q.strip()]`
StripNonBlank(lines) ==
    LET kept == SelectSeq(lines, LAMBDA q : Strip(q) # <<>>)
    IN  [i \in 1..Len(kept) |-> Strip(kept[i])]

\* variant: the whole list is returned
FormatQuestionsUncut(responseText) ==
    StripNonBlank(SplitLines(Strip(responseText)))

\* `response.text.strip()`, the list comprehension and `questions_list[:7]`
FormatQuestions(responseText) ==
    Take(StripNonBlank(SplitLines(Strip(responseText))), QuestionLimit)

generate_questions(text, outcome) ==
    LET w == WorkingText(text)
        m == InvokeModel(QuestionsPrompt(w.text), outcome)
    IN  [splits |-> w.splits,
         sent   |-> m.sent,
         result |-> IF m.reply.tag = "ok"
                        THEN Ok(FormatQuestions(m.reply.value))
                        ELSE Wrap("Error generating questions: ", m.reply)]

(***************************************************************************)
(* Inputs of the engine                                                    *)
(***************************************************************************)
\* texts have lengths within Spread of ContextLimit, besides the short ones
Spread == 2
\* responses have up to MaxLines lines
MaxLines == 10

Letters == <<"a", "b", "c", "d", "e", "f", "g">>

\* a separator-free text of n characters, of period 7 from a given phase
LongText(n, phase) == [i \in 1..n |-> Letters[((i + phase) % 7) + 1]]

TextLengths ==
    {0, 3} \cup ((ContextLimit - Spread)..(ContextLimit + Spread))
           \cup {ContextLimit + ChunkSize}

Texts == {LongText(n, ph) : n \in TextLengths, ph \in {0, 3}}

Questions == {<<"w", "h", "y", "?">>, <<"w", "h", "o", "?">>}

\* line i of a response: a question, bare, padded, blank or whitespace only
Line(i, style) ==
    LET q == <<"Q", Digits[(i \div 10) + 1], Digits[(i % 10) + 1]>> IN
    CASE style = 0 -> q
      [] style = 1 -> <<" ", "\t">> \o q \o <<" ">>
      [] style = 2 -> <<>>
      [] OTHER     -> <<" ", " ">>

Response(n, pattern) ==
    Join([i \in 1..n |-> Line(i, IF pattern = 0 THEN 0 ELSE (i + pattern) % 4)],
         <<NL>>)

Responses == {Response(n, pat) : n \in 0..MaxLines, pat \in 0..4}

Sentinel == <<"I", " ", "c", "a", "n", "n", "o", "t">>

AnswerOutcomes ==
    {ModelOk(Sentinel), ModelOk(<<NL, " ", "4", "2", " ", NL>>),
     ModelRaise(<<"429 rate limit">>), ModelNoText(<<"response has no text">>)}

QuestionsOutcomes ==
    {ModelOk(r) : r \in Responses}
        \cup {ModelRaise(<<"deadline exceeded">>), ModelNoText(<<"response has no text">>)}

ExtIdle == [file |-> Absent, result |-> NoCall]

QaInit ==
    /\ qa \in {[op |-> "get_answer", text |-> t, question |-> q, done |-> FALSE]
                  : t \in Texts, q \in Questions}
              \cup {[op |-> "generate_questions", text |-> t, question |-> <<>>,
                     done |-> FALSE] : t \in Texts}
    /\ ext = ExtIdle
    /\ SysIdle

\* a caller runs get_answer and the model reacts in one of its ways
GetAnswerCall ==
    /\ qa.op = "get_answer" /\ ~qa.done
    /\ \E outcome \in AnswerOutcomes :
          qa' = [op |-> qa.op, text |-> qa.text, question |-> qa.question,
                 done |-> TRUE, outcome |-> outcome,
                 call |-> get_answer(qa.text, qa.question, outcome)]
    /\ UNCHANGED <<ext, sysvars>>

\* a caller runs generate_questions and the model reacts in one of its ways
GenerateQuestionsCall ==
    /\ qa.op = "generate_questions" /\ ~qa.done
    /\ \E outcome \in QuestionsOutcomes :
          qa' = [op |-> qa.op, text |-> qa.text, question |-> qa.question,
                 done |-> TRUE, outcome |-> outcome,
                 call |-> generate_questions(qa.text, outcome)]
    /\ UNCHANGED <<ext, sysvars>>

QaNext == GetAnswerCall \/ GenerateQuestionsCall

SpecQA == QaInit /\ [][QaNext]_vars

(***************************************************************************)
(* main.py: the handlers.  A handler runs as a sequence of steps, between  *)
(* which the steps of the other requests may run: one step per access to   *)
(* the database, to the uploads directory or to the external model.        *)
(***************************************************************************)
PdfSuffix == <<".", "p", "d", "f">>

UploadDir == <<"uploads/">>

\* datetime.now().strftime("%Y%m%d_%H%M%S"): the clock cut to whole seconds;
\* the fields above the seconds do not change within MaxTime ticks
Strftime(t) ==
    LET sec == t \div TicksPerSecond IN
    <<Digits[((sec \div 10) % 10) + 1], Digits[(sec % 10) + 1]>>

\* f"{timestamp}_{file.filename}"
StoredFilename(t, name) == Strftime(t) \o <<"_">> \o name

\* UPLOAD_DIR / filename
UploadPath(filename) == UploadDir \o filename

\* str(e) of HTTPException(status_code=404, detail="Document not found")
Http404Str == <<"404: Document not found">>

\* variant: no unique index on documents.filename
FilenameFree(table, filename) == FALSE

\* Column(String, unique=True) on filename: an INSERT of a filename that a
\* row already has raises IntegrityError
FilenameTaken(table, filename) ==
    \E d \in DOMAIN table : table[d].filename = filename

\* models.Document(...) as upload_pdf builds it
Row(r, t) ==
    [filename |-> r.fname, original_filename |-> r.name, upload_date |-> t,
     file_path |-> r.path, text_content |-> r.text]

\* the handler of request r returns or raises HTTPException
Respond(r, status, detail, body, entry) ==
    [r EXCEPT !.pc = "done", !.status = status, !.detail = detail,
              !.body = body, !.log = Append(r.log, entry)]

\* the handler of request r moves on to its next step
Goto(r, pc, entry) == [r EXCEPT !.pc = pc, !.log = Append(r.log, entry)]

\* requests arrive in the order of their numbers
CanStart(r) ==
    /\ req[r].kind = "none"
    /\ IF r = 1 THEN TRUE ELSE req[r - 1].kind # "none"

At(r, kind, pc) == req[r].kind = kind /\ req[r].pc = pc

\* ids a request may name: more than can exist when it arrives
TargetIds == 1..(NumRequests - 1)

Names == {<<"a">> \o PdfSuffix, <<"a", ".", "t", "x", "t">>}

HelloWorldPdf == Pdf(<<TextPage(Hello), TextPage(World)>>)

Payloads == {HelloWorldPdf, Pdf(<<>>), MalformedPdf}

SysAnswerOutcomes == {ModelOk(<<" ", "n", "o", NL>>), ModelRaise(<<"429 rate limit">>)}

SysQuestionsOutcomes ==
    {ModelOk(Response(3, 1)), ModelNoText(<<"response has no text">>)}

SysQuestion == <<"w", "h", "y", "?">>

(* ---- POST /upload/ ---- *)

\* lines 82-92: extension check, timestamped filename
UploadStart(r) ==
    /\ CanStart(r)
    /\ \E name \in Names, payload \in Payloads :
          LET base == [Idle EXCEPT !.kind = "upload", !.name = name,
                                   !.payload = payload]
              fn == StoredFilename(now, name)
          IN  req' = [req EXCEPT ![r] =
                  IF ~EndsWith(name, PdfSuffix)
                      THEN Respond(base, 400, <<"Only PDF files are allowed">>,
                                   <<>>, "rejected")
                      ELSE [base EXCEPT !.pc = "open", !.fname = fn,
                                        !.path = UploadPath(fn)]]
    /\ UNCHANGED <<docs, nextId, files, now, ext, qa>>

\* line 98: file_path.open("wb") creates the file or truncates the one there
UploadOpen(r) ==
    /\ At(r, "upload", "open")
    /\ \/ /\ files' = Put(files, req[r].path, File(TRUE, MalformedPdf))
          /\ req' = [req EXCEPT ![r] = Goto(@, "write", "opened")]
       \/ /\ files' = files
          /\ req' = [req EXCEPT ![r] =
                        Respond(@, 500, <<"Error saving file: ", "open failed">>,
                                <<>>, "save_failed")]
    /\ UNCHANGED <<docs, nextId, now, ext, qa>>

\* lines 99-105: the upload is copied into the open file.  The bytes go to
\* the file that was opened: nowhere visible if it was unlinked since, and
\* mixed with another writer's bytes if one wrote since.
UploadWrite(r) ==
    /\ At(r, "upload", "write")
    /\ LET path == req[r].path
           cur == FileAt(files, path)
       IN  \/ /\ \E written \in {req[r].payload}
                        \cup (IF cur.exists /\ cur.pdf # MalformedPdf
                                 THEN {MalformedPdf} ELSE {}) :
                    files' = IF cur.exists
                                THEN Put(files, path, File(TRUE, written))
                                ELSE files
              /\ req' = [req EXCEPT ![r] = Goto(@, "extract", "saved")]
           \/ /\ files' = files
              /\ req' = [req EXCEPT ![r] =
                            Respond(@, 500, <<"Error saving file: ", "write failed">>,
                                    <<>>, "save_failed")]
    /\ UNCHANGED <<docs, nextId, now, ext, qa>>

\* lines 109-114 and 151-154: extract_text on the saved path; an exception
\* is answered with 500 after db.rollback()
UploadExtract(r) ==
    /\ At(r, "upload", "extract")
    /\ LET res == extract_text(FileAt(files, req[r].path)) IN
       req' = [req EXCEPT ![r] =
                  IF res.tag = "ok"
                      THEN [Goto(@, "commit", "extracted") EXCEPT !.text = res.value]
                      ELSE Respond(@, 500, res.value, <<>>, "extract_failed")]
    /\ UNCHANGED <<docs, nextId, files, now, ext, qa>>

\* variant: a failing commit leaves the added row in the table
UploadCommitNoRollback(r) ==
    /\ At(r, "upload", "commit")
    /\ \/ /\ ~FilenameTaken(docs, req[r].fname)
          /\ nextId' = nextId + 1
          /\ docs' = Put(docs, nextId, Row(req[r], now))
          /\ \/ req' = [req EXCEPT ![r] =
                           Respond(@, 500, <<"database unavailable">>, <<>>,
                                   "rolled_back")]
             \/ req' = [req EXCEPT ![r] =
                           [Respond(@, 200, <<"File uploaded successfully">>, nextId,
                                    "committed") EXCEPT !.id = nextId]]
       \/ /\ FilenameTaken(docs, req[r].fname)
          /\ nextId' = nextId + 1
          /\ docs' = docs
          /\ req' = [req EXCEPT ![r] =
                        Respond(@, 500, <<"IntegrityError: duplicate key">>, <<>>,
                                "rolled_back")]
    /\ UNCHANGED <<files, now, ext, qa>>

\* lines 121-157: db.add, db.commit; on an exception db.rollback and 500.
\* The id is drawn from the sequence before the unique index is checked.
UploadCommit(r) ==
    /\ At(r, "upload", "commit")
    /\ \/ /\ UNCHANGED <<docs, nextId>>
          /\ req' = [req EXCEPT ![r] =
                        Respond(@, 500, <<"database unavailable">>, <<>>, "rolled_back")]
       \/ /\ FilenameTaken(docs, req[r].fname)
          /\ nextId' = nextId + 1
          /\ docs' = docs
          /\ req' = [req EXCEPT ![r] =
                        Respond(@, 500, <<"IntegrityError: duplicate key">>, <<>>,
                                "rolled_back")]
       \/ /\ ~FilenameTaken(docs, req[r].fname)
          /\ nextId' = nextId + 1
          /\ docs' = Put(docs, nextId, Row(req[r], now))
          /\ req' = [req EXCEPT ![r] =
                        [Respond(@, 200, <<"File uploaded successfully">>, nextId,
                                 "committed") EXCEPT !.id = nextId]]
    /\ UNCHANGED <<files, now, ext, qa>>

(* ---- DELETE /documents/{document_id} ---- *)

\* lines 174-182: the lookup; HTTPException(404) is re-raised as it is
DeleteStart(r) ==
    /\ CanStart(r)
    /\ \E id \in TargetIds :
          LET base == [Idle EXCEPT !.kind = "delete", !.id = id] IN
          req' = [req EXCEPT ![r] =
                     IF id \notin DOMAIN docs
                         THEN Respond(base, 404, <<"Document not found">>, <<>>,
                                      "not_found")
                         ELSE [Goto(base, "file", "found")
                                  EXCEPT !.path = docs[id].file_path]]
    /\ UNCHANGED <<docs, nextId, files, now, ext, qa>>

\* variant: an exception of unlink ends the request with 500
DeleteFileAbort(r) ==
    /\ At(r, "delete", "file")
    /\ \/ /\ req[r].path \in DOMAIN files
          /\ \/ /\ files' = Drop(files, req[r].path)
                /\ req' = [req EXCEPT ![r] = Goto(@, "record", "file_deleted")]
             \/ /\ files' = files
                /\ req' = [req EXCEPT ![r] =
                              Respond(@, 500, <<"unlink failed">>, <<>>, "file_error")]
       \/ /\ req[r].path \notin DOMAIN files
          /\ files' = files
          /\ req' = [req EXCEPT ![r] = Goto(@, "record", "file_missing")]
    /\ UNCHANGED <<docs, nextId, now, ext, qa>>

\* lines 185-194: unlink the file if it exists; an exception is logged
DeleteFile(r) ==
    /\ At(r, "delete", "file")
    /\ \/ /\ req[r].path \in DOMAIN files
          /\ \/ /\ files' = Drop(files, req[r].path)
                /\ req' = [req EXCEPT ![r] = Goto(@, "record", "file_deleted")]
             \/ /\ files' = files
                /\ req' = [req EXCEPT ![r] = Goto(@, "record", "file_error")]
       \/ /\ req[r].path \notin DOMAIN files
          /\ files' = files
          /\ req' = [req EXCEPT ![r] = Goto(@, "record", "file_missing")]
    /\ UNCHANGED <<docs, nextId, now, ext, qa>>

\* variant: deleting a row that is already gone raises (StaleDataError)
DeleteRecordStale(r) ==
    /\ At(r, "delete", "record")
    /\ \/ /\ req[r].id \in DOMAIN docs
          /\ docs' = Drop(docs, req[r].id)
          /\ req' = [req EXCEPT ![r] = Goto(@, "verify", "record_deleted")]
       \/ /\ req[r].id \notin DOMAIN docs
          /\ docs' = docs
          /\ req' = [req EXCEPT ![r] =
                        Respond(@, 500, <<"Database error: ", "stale row">>,
                                <<>>, "stale_row")]
       \/ /\ docs' = docs
          /\ req' = [req EXCEPT ![r] =
                        Respond(@, 500, <<"Database error: ", "database unavailable">>,
                                <<>>, "db_error")]
    /\ UNCHANGED <<nextId, files, now, ext, qa>>

\* lines 197-201 and 214-217: db.delete, db.commit; a row that is already
\* gone only draws a warning; an exception is answered with 500
DeleteRecord(r) ==
    /\ At(r, "delete", "record")
    /\ \/ /\ docs' = Drop(docs, req[r].id)
          /\ req' = [req EXCEPT ![r] = Goto(@, "verify", "record_deleted")]
       \/ /\ docs' = docs
          /\ req' = [req EXCEPT ![r] =
                        Respond(@, 500, <<"Database error: ", "database unavailable">>,
                                <<>>, "db_error")]
    /\ UNCHANGED <<nextId, files, now, ext, qa>>

\* lines 203-219: look the row up again, delete it with SQL if it is there
DeleteVerify(r) ==
    /\ At(r, "delete", "verify")
    /\ docs' = IF req[r].id \in DOMAIN docs THEN Drop(docs, req[r].id) ELSE docs
    /\ req' = [req EXCEPT ![r] =
                  Respond(@, 200, <<"Document deleted successfully">>, req[r].id,
                          "verified")]
    /\ UNCHANGED <<nextId, files, now, ext, qa>>

(* ---- POST /ask/ ---- *)

\* variant: `except HTTPException: raise` ahead of `except Exception`
AskNotFoundPassed(r) ==
    Respond(r, 404, <<"Document not found">>, <<>>, "not_found")

\* lines 248-250 and 258-260: HTTPException(404) is raised inside the try
\* block whose `except Exception` answers 500 with str(e)
AskNotFound(r) == Respond(r, 500, Http404Str, <<>>, "not_found")

\* lines 244-252: the lookup
AskStart(r) ==
    /\ CanStart(r)
    /\ \E id \in TargetIds :
          LET base == [Idle EXCEPT !.kind = "ask", !.id = id,
                                   !.question = SysQuestion] IN
          req' = [req EXCEPT ![r] =
                     IF id \notin DOMAIN docs
                         THEN AskNotFound(base)
                         ELSE [Goto(base, "answer", "found")
                                  EXCEPT !.text = docs[id].text_content]]
    /\ UNCHANGED <<docs, nextId, files, now, ext, qa>>

\* variant: the handler saves the answer into the document's row
AskAnswerWriteBack(r) ==
    /\ At(r, "ask", "answer")
    /\ \E outcome \in SysAnswerOutcomes :
          LET c == get_answer(req[r].text, req[r].question, outcome) IN
          /\ req' = [req EXCEPT ![r] =
                        [(IF c.result.tag = "ok"
                             THEN Respond(@, 200, <<>>, c.result.value, "answered")
                             ELSE Respond(@, 500, c.result.value, <<>>, "answer_failed"))
                         EXCEPT !.sent = c.sent]]
          /\ docs' = IF req[r].id \in DOMAIN docs
                        THEN [docs EXCEPT ![req[r].id].text_content = c.result.value]
                        ELSE docs
    /\ UNCHANGED <<nextId, files, now, ext, qa>>

\* lines 253-260: get_answer; its exception is answered with 500
AskAnswer(r) ==
    /\ At(r, "ask", "answer")
    /\ \E outcome \in SysAnswerOutcomes :
          LET c == get_answer(req[r].text, req[r].question, outcome) IN
          req' = [req EXCEPT ![r] =
                     [(IF c.result.tag = "ok"
                          THEN Respond(@, 200, <<>>, c.result.value, "answered")
                          ELSE Respond(@, 500, c.result.value, <<>>, "answer_failed"))
                      EXCEPT !.sent = c.sent]]
    /\ UNCHANGED <<docs, nextId, files, now, ext, qa>>

(* ---- GET /documents/{document_id}/suggested-questions ---- *)

\* lines 324-333: the lookup; nothing catches HTTPException(404)
SuggestStart(r) ==
    /\ CanStart(r)
    /\ \E id \in TargetIds :
          LET base == [Idle EXCEPT !.kind = "suggest", !.id = id] IN
          req' = [req EXCEPT ![r] =
                     IF id \notin DOMAIN docs
                         THEN Respond(base, 404, <<"Document not found">>, <<>>,
                                      "not_found")
                         ELSE [Goto(base, "questions", "found")
                                  EXCEPT !.text = docs[id].text_content]]
    /\ UNCHANGED <<docs, nextId, files, now, ext, qa>>

\* lines 336-345: generate_questions; its exception is answered with 500
SuggestQuestions(r) ==
    /\ At(r, "suggest", "questions")
    /\ \E outcome \in SysQuestionsOutcomes :
          LET c == generate_questions(req[r].text, outcome) IN
          req' = [req EXCEPT ![r] =
                     [(IF c.result.tag = "ok"
                          THEN Respond(@, 200, <<>>, c.result.value, "suggested")
                          ELSE Respond(@, 500,
                                       <<"Error generating questions: ">> \o c.result.value,
                                       <<>>, "suggest_failed"))
                      EXCEPT !.sent = c.sent]]
    /\ UNCHANGED <<docs, nextId, files, now, ext, qa>>

(* ---- GET /documents/{doc_id} ---- *)

\* the ids whose DELETE has been answered with success
DeletedIds ==
    {req[d].id : d \in {x \in Reqs : /\ req[x].kind = "delete"
                                     /\ req[x].pc = "done"
                                     /\ req[x].status = 200}}

\* lines 297-305; `after` notes the deletes answered before this request
GetDocument(r) ==
    /\ CanStart(r)
    /\ \E id \in TargetIds :
          LET base == [Idle EXCEPT !.kind = "get", !.id = id, !.after = DeletedIds] IN
          req' = [req EXCEPT ![r] =
                     IF id \notin DOMAIN docs
                         THEN Respond(base, 404, <<"Document not found">>, <<>>,
                                      "not_found")
                         ELSE Respond(base, 200, <<>>, docs[id], "found")]
    /\ UNCHANGED <<docs, nextId, files, now, ext, qa>>

(* ---- GET /documents/ ---- *)

\* schemas.DocumentOut: the row with its id
DocOut(table, d) ==
    [id |-> d, filename |-> table[d].filename,
     original_filename |-> table[d].original_filename,
     upload_date |-> table[d].upload_date, file_path |-> table[d].file_path,
     text_content |-> table[d].text_content]

\* `db.query(models.Document).all()`: the SELECT has no ORDER BY, so the
\* database returns the rows in an order of its choosing
QueryAll(table) ==
    LET n == Cardinality(DOMAIN table)
        orders == {f \in [1..n -> DOMAIN table] :
                      \A i, j \in 1..n : f[i] = f[j] => i = j}
    IN  {[i \in 1..n |-> DocOut(table, f[i])] : f \in orders}

\* lines 273-281; `after` notes the ids stored when the query ran
ListDocuments(r) ==
    /\ CanStart(r)
    /\ \E documents \in QueryAll(docs) :
          req' = [req EXCEPT ![r] =
                     Respond([Idle EXCEPT !.kind = "list", !.after = DOMAIN docs],
                             200, <<>>, documents, "listed")]
    /\ UNCHANGED <<docs, nextId, files, now, ext, qa>>

\* time passes
Tick ==
    /\ now < MaxTime
    /\ now' = now + 1
    /\ UNCHANGED <<docs, nextId, files, req, ext, qa>>

Init ==
    /\ SysIdle
    /\ ext = ExtIdle
    /\ qa = QaIdle

Next ==
    \/ Tick
    \/ \E r \in Reqs :
          \/ UploadStart(r) \/ UploadOpen(r) \/ UploadWrite(r)
          \/ UploadExtract(r) \/ UploadCommit(r)
          \/ DeleteStart(r) \/ DeleteFile(r) \/ DeleteRecord(r) \/ DeleteVerify(r)
          \/ AskStart(r) \/ AskAnswer(r)
          \/ SuggestStart(r) \/ SuggestQuestions(r)
          \/ GetDocument(r) \/ ListDocuments(r)

Spec == Init /\ [][Next]_vars

(***************************************************************************)
(* Properties of the handlers (checked under Spec)                         *)
(***************************************************************************)
Done(r, kind) == req[r].kind = kind /\ req[r].pc = "done"

Logged(r, entry) == \E i \in 1..Len(req[r].log) : req[r].log[i] = entry

\* C2: POST /ask/ for a document_id that is not in the store is answered
\* with status 404 "Document not found", not 500, and the external model is
\* not invoked.
C2_AskMissingIs404 ==
    \A r \in Reqs :
        (Done(r, "ask") /\ Logged(r, "not_found")) =>
            /\ req[r].status = 404
            /\ req[r].sent = <<>>

FileSteps == {"file_deleted", "file_missing", "file_error"}

\* C3: a delete of an existing document attempts the file removal before
\* the record removal and, whatever the outcome of the file step (file
\* already missing, unlink raising, file removed), then removes the record
\* and returns success unless the database itself fails; a get of that id
\* that arrives after the delete was answered returns 404.
C3_DeleteRemovesRecord ==
    \A r \in Reqs :
        /\ (req[r].kind = "delete" /\ Logged(r, "found")) =>
              /\ (req[r].pc # "file" =>
                      Len(req[r].log) >= 2 /\ req[r].log[2] \in FileSteps)
              /\ (Logged(r, "record_deleted") =>
                      /\ req[r].log[2] \in FileSteps
                      /\ req[r].log[3] = "record_deleted"
                      /\ req[r].id \notin DOMAIN docs)
              /\ ((req[r].pc = "done" /\ ~Logged(r, "db_error")) =>
                      /\ req[r].status = 200
                      /\ req[r].id \notin DOMAIN docs)
        /\ (Done(r, "get") /\ req[r].id \in req[r].after) => req[r].status = 404

\* a delete that found its document's file already missing removed the
\* record and returned success
C3_Witness ==
    \E d \in Reqs :
        /\ Done(d, "delete")
        /\ req[d].log = <<"found", "file_missing", "record_deleted", "verified">>
        /\ req[d].status = 200
        /\ req[d].id \notin DOMAIN docs

\* a delete whose unlink raised returned success, and a get of its id that
\* arrived later was answered 404
C3_WitnessGet ==
    \E d, g \in Reqs :
        /\ Done(d, "delete")
        /\ Logged(d, "file_error")
        /\ req[d].status = 200
        /\ Done(g, "get")
        /\ req[g].id = req[d].id
        /\ req[d].id \in req[g].after
        /\ req[g].status = 404

UploadSucceeded(r) ==
    /\ Done(r, "upload")
    /\ req[r].status = 200
    /\ req[r].log = <<"opened", "saved", "extracted", "committed">>

\* C4: an upload that fails after its file was saved, because extraction or
\* the database add/commit raised, is rolled back and answered with 500 and
\* leaves no record: the records of the store are those of the uploads whose
\* file write, extraction and commit all succeeded, one upload per record.
C4_FailedUploadLeavesNoRecord ==
    /\ \A r \in Reqs :
          (Done(r, "upload") /\ Logged(r, "saved") /\ ~Logged(r, "committed")) =>
              /\ req[r].status = 500
              /\ req[r].id = 0
              /\ req[r].log[Len(req[r].log)] \in {"extract_failed", "rolled_back"}
    /\ \A d \in DOMAIN docs :
          \E r \in Reqs :
              /\ UploadSucceeded(r)
              /\ req[r].id = d
              /\ docs[d].filename = req[r].fname
              /\ docs[d].text_content = req[r].text
    /\ \A r1, r2 \in Reqs :
          (UploadSucceeded(r1) /\ UploadSucceeded(r2) /\ r1 # r2)
              => req[r1].id # req[r2].id
    /\ Cardinality(DOMAIN docs)
          <= Cardinality({r \in Reqs : UploadSucceeded(r)})

\* one upload failed in extraction, another in the commit, and the store
\* holds nothing
C4_Witness ==
    \E r1, r2 \in Reqs :
        /\ Done(r1, "upload") /\ req[r1].log = <<"opened", "saved", "extract_failed">>
        /\ Done(r2, "upload")
        /\ req[r2].log = <<"opened", "saved", "extracted", "rolled_back">>
        /\ req[r1].status = 500 /\ req[r2].status = 500
        /\ docs = EmptyMap

\* C9: in every reachable state, whatever the interleaving of uploads and
\* deletes, no two Document records have the same stored filename.
C9_UniqueStoredFilename ==
    \A d1, d2 \in DOMAIN docs :
        docs[d1].filename = docs[d2].filename => d1 = d2

\* two uploads of the same original filename in the same clock second: one
\* is stored, the other was refused by the unique index
C9_Witness ==
    \E r1, r2 \in Reqs :
        /\ r1 # r2
        /\ UploadSucceeded(r1)
        /\ req[r1].id \in DOMAIN docs
        /\ Done(r2, "upload")
        /\ req[r2].fname = req[r1].fname
        /\ req[r2].detail = <<"IntegrityError: duplicate key">>

Asking(r) == req[r].kind \in {"ask", "suggest"}

\* C11: the ask and suggested-questions operations leave the document store
\* and the stored files unchanged whether they succeed or fail, so every
\* question on a document, whatever runs beside it, builds its prompt from
\* the text_content stored at upload; two questions on one document use the
\* same text.
C11_QuestionsReadOnly ==
    /\ [](\A a \in Reqs :
            (Asking(a) /\ Logged(a, "found")) =>
                /\ \E u \in Reqs :
                      /\ UploadSucceeded(u)
                      /\ req[u].id = req[a].id
                      /\ req[a].text = req[u].text
                /\ (req[a].sent # <<>> => req[a].sent[1].text = req[a].text)
                /\ \A b \in Reqs :
                      (Asking(b) /\ Logged(b, "found") /\ req[b].id = req[a].id)
                          => req[b].text = req[a].text)
    /\ [][\A a \in Reqs :
            (req'[a] # req[a] /\ req'[a].kind \in {"ask", "suggest"})
                => (docs' = docs /\ files' = files)]_vars

\* two questions on the same document were in flight together; one has
\* sent its prompt and failed, the document is still stored with its text
C11_Witness ==
    \E a, b \in Reqs :
        /\ a # b
        /\ req[a].kind = "ask" /\ req[b].kind = "ask"
        /\ req[a].id = req[b].id
        /\ req[a].pc = "answer"
        /\ Done(b, "ask") /\ req[b].status = 500 /\ Len(req[b].sent) = 1
        /\ req[b].sent[1].text = Hello \o <<NL>> \o World
        /\ req[a].id \in DOMAIN docs
        /\ docs[req[a].id].text_content = req[a].text

\* C12: an upload whose filename does not end with ".pdf" is rejected with
\* status 400 before anything is written: it creates no file in the uploads
\* directory and adds no Document record.
C12_NonPdfRejected ==
    /\ [](/\ \A r \in Reqs :
               (req[r].kind = "upload"
                    /\ SubSeq(req[r].name, Len(req[r].name) - 3, Len(req[r].name))
                         # <<".", "p", "d", "f">>) =>
                   /\ req[r].pc = "done"
                   /\ req[r].status = 400
                   /\ req[r].log = <<"rejected">>
                   /\ req[r].path = <<>>
          /\ \A p \in DOMAIN files :
               SubSeq(p, Len(p) - 3, Len(p)) = <<".", "p", "d", "f">>
          /\ \A d \in DOMAIN docs :
               SubSeq(docs[d].original_filename,
                      Len(docs[d].original_filename) - 3,
                      Len(docs[d].original_filename)) = <<".", "p", "d", "f">>)
    /\ [][\A r \in Reqs :
            (req'[r] # req[r] /\ req'[r].status = 400)
                => (docs' = docs /\ files' = files)]_vars

\* a .txt upload was answered 400 while the store and the directory were
\* empty
C12_Witness ==
    \E r \in Reqs :
        /\ Done(r, "upload")
        /\ req[r].name = <<"a", ".", "t", "x", "t">>
        /\ req[r].status = 400
        /\ files = EmptyMap
        /\ docs = EmptyMap

\* C13: GET /documents/ returns all stored documents as a sequence ordered
\* by upload time, after any sequence of uploads and deletes.
C13_ListByUploadTime ==
    \A r \in Reqs :
        Done(r, "list") =>
            LET documents == req[r].body IN
            /\ {documents[i].id : i \in 1..Len(documents)} = req[r].after
            /\ Len(documents) = Cardinality(req[r].after)
            /\ \A i, j \in 1..Len(documents) :
                  i < j => documents[i].upload_date <= documents[j].upload_date

ZeroPages(f) == f.exists /\ f.readable /\ f.pdf.valid /\ f.pdf.pages = <<>>

\* C14: extract_text on a PDF with zero pages returns the empty string and
\* raises no error, and the upload that called it goes on to its commit,
\* which, unless the database refuses it, creates a Document whose
\* text_content is the empty string.
C14_ZeroPagesEmptyText ==
    /\ [][\A r \in Reqs :
            (/\ At(r, "upload", "extract")
             /\ req'[r] # req[r]
             /\ ZeroPages(FileAt(files, req[r].path))) =>
                /\ extract_text(FileAt(files, req[r].path)) = Ok(<<>>)
                /\ req'[r].pc = "commit"
                /\ req'[r].text = <<>>
                /\ req'[r].log = <<"opened", "saved", "extracted">>]_vars
    /\ [][\A r \in Reqs :
            (/\ At(r, "upload", "commit")
             /\ req[r].text = <<>>
             /\ req'[r] # req[r]
             /\ ~Logged(r, "rolled_back")') =>
                /\ req'[r].status = 200
                /\ req'[r].id \notin DOMAIN docs
                /\ req'[r].id \in DOMAIN docs'
                /\ docs'[req'[r].id].text_content = <<>>]_vars

\* an upload of a PDF without pages is stored with the empty text
C14_Witness ==
    \E r \in Reqs :
        /\ UploadSucceeded(r)
        /\ req[r].payload = Pdf(<<>>)
        /\ req[r].log = <<"opened", "saved", "extracted", "committed">>
        /\ req[r].text = <<>>
        /\ req[r].id \in DOMAIN docs
        /\ docs[req[r].id].text_content = <<>>
        /\ ZeroPages(FileAt(files, req[r].path))

\* C15: every stored document's file holds the bytes of the upload that
\* created its record: no upload request, successful or failed, overwrites
\* or truncates the file that an existing Document record refers to.
C15_StoredFileKeepsItsBytes ==
    /\ [](\A u \in Reqs :
            (/\ UploadSucceeded(u)
             /\ req[u].id \in DOMAIN docs
             /\ req[u].path \in DOMAIN files) =>
                files[req[u].path].pdf = req[u].payload)
    /\ [][\A r \in Reqs, d \in DOMAIN docs :
            (req[r].kind = "upload" /\ req'[r] # req[r]) =>
                FileAt(files', docs[d].file_path) = FileAt(files, docs[d].file_path)]_vars

\* C16: for two delete requests on the same document, of which at least one
\* found it, in every interleaving of their steps: once both have completed
\* without a failure of the database itself, the record is absent, at least
\* one request answered 200 and the other 200 or 404, never 500.
C16_ConcurrentDeletes ==
    \A r1, r2 \in Reqs :
        (/\ r1 # r2
         /\ Done(r1, "delete") /\ Done(r2, "delete")
         /\ req[r1].id = req[r2].id
         /\ Logged(r1, "found") \/ Logged(r2, "found")
         /\ ~Logged(r1, "db_error") /\ ~Logged(r2, "db_error")) =>
            /\ req[r1].id \notin DOMAIN docs
            /\ req[r1].status = 200 \/ req[r2].status = 200
            /\ req[r1].status \in {200, 404}
            /\ req[r2].status \in {200, 404}

\* both requests found the document before either removed it; one removed
\* the file, the other found it gone, and both answered 200
C16_Witness ==
    \E r1, r2 \in Reqs :
        /\ r1 # r2
        /\ Done(r1, "delete") /\ Done(r2, "delete")
        /\ req[r1].id = req[r2].id
        /\ req[r1].log = <<"found", "file_deleted", "record_deleted", "verified">>
        /\ req[r2].log = <<"found", "file_missing", "record_deleted", "verified">>
        /\ req[r1].status = 200 /\ req[r2].status = 200
        /\ req[r1].id \notin DOMAIN docs

(***************************************************************************)
(* Properties of the engine (checked under SpecQA)                         *)
(***************************************************************************)
AnswerDone == qa.op = "get_answer" /\ qa.done

QuestionsDone == qa.op = "generate_questions" /\ qa.done

\* C1: get_answer embeds the full, unmodified text in the prompt when
\* len(text) <= 30000, without running the splitter, and otherwise embeds
\* the first 5 chunks of the 1000/200 splitter, in order, joined by newlines;
\* a text of exactly 30000 characters takes the full-text path.
C1_PromptText ==
    AnswerDone =>
        LET embedded == qa.call.sent[1].text
            chunks == split_text(qa.text)
        IN  /\ qa.call.sent[1].question = qa.question
            /\ (Len(qa.text) <= 30000 =>
                    embedded = qa.text /\ qa.call.splits = 0)
            /\ (Len(qa.text) > 30000 =>
                    /\ Len(chunks) >= 5
                    /\ \A k \in 1..5 : Len(chunks[k]) = 1000
                    /\ embedded = chunks[1] \o <<NL>> \o chunks[2] \o <<NL>>
                                    \o chunks[3] \o <<NL>> \o chunks[4]
                                    \o <<NL>> \o chunks[5])

\* a text one character over the limit was cut to five chunks, and a text
\* at the limit would be the other case
C1_Witness ==
    /\ AnswerDone
    /\ Len(qa.text) = 30001
    /\ qa.call.splits = 1
    /\ Len(qa.call.sent[1].text) = 5004

\* the lines of a response that are not blank, untrimmed
NonBlankLines(responseText) ==
    SelectSeq(SplitLines(responseText), LAMBDA l : Strip(l) # <<>>)

\* C8: generate_questions returns the first min(7, n) of the n non-blank
\* lines of the response, trimmed and in their order: never more than 7,
\* never an empty or untrimmed entry, never padded.
C8_QuestionList ==
    (QuestionsDone /\ qa.outcome.kind = "ok") =>
        LET nonblank == NonBlankLines(qa.outcome.text)
            out == qa.call.result.value
        IN  /\ qa.call.result.tag = "ok"
            /\ Len(out) = Min(7, Len(nonblank))
            /\ Len(out) <= 7
            /\ \A i \in 1..Len(out) :
                  /\ out[i] = Strip(nonblank[i])
                  /\ out[i] # <<>>
                  /\ Head(out[i]) \notin Whitespace
                  /\ out[i][Len(out[i])] \notin Whitespace

\* ten non-blank lines came back and seven were returned
C8_Witness ==
    /\ QuestionsDone
    /\ qa.outcome.kind = "ok"
    /\ Len(NonBlankLines(qa.outcome.text)) = 10
    /\ Len(qa.call.result.value) = 7
    /\ qa.call.result.value[7] = <<"Q", "0", "7">>

\* C10: an answer or suggest call invokes the external model exactly once;
\* when the model fails the call fails with one wrapped error that carries
\* the cause's message, and the model is not invoked again.
C10_SingleAttempt ==
    qa.done =>
        /\ Len(qa.call.sent) = 1
        /\ (qa.outcome.kind # "ok" =>
                /\ qa.call.result.tag = "Exception"
                /\ Len(qa.call.result.value) = Len(qa.outcome.cause) + 1
                /\ Contains(qa.call.result.value, qa.outcome.cause))

\* the model raised and the caller got the wrapped error after one attempt
C10_Witness ==
    /\ QuestionsDone
    /\ qa.outcome.kind = "raise"
    /\ Len(qa.call.sent) = 1
    /\ qa.call.result = Raised("Exception",
                               <<"Error generating questions: ", "deadline exceeded">>)

\* C17: given that every chunk the splitter returns has at most 1000
\* characters, the working text that get_answer and generate_questions embed
\* in the prompt never exceeds 30000 characters: it is the whole text when
\* len(text) <= 30000 and at most 5*1000 + 4 = 5004 characters otherwise.
C17_WorkingTextBound ==
    qa.done =>
        LET embedded == qa.call.sent[1].text
            chunks == split_text(qa.text)
        IN  (\A k \in 1..Len(chunks) : Len(chunks[k]) <= 1000) =>
                /\ Len(qa.call.sent) = 1
                /\ Len(embedded) <= 30000
                /\ (Len(qa.text) <= 30000 => embedded = qa.text)
                /\ (Len(qa.text) > 30000 => Len(embedded) <= 5 * 1000 + 4)

\* generate_questions on a text of 31000 characters embedded five full
\* chunks and four newlines
C17_Witness ==
    /\ QuestionsDone
    /\ Len(qa.text) = 31000
    /\ Len(split_text(qa.text)) > 5
    /\ Len(qa.call.sent[1].text) = 5004

(***************************************************************************)
(* Properties of the extractor (checked under SpecExtract)                 *)
(***************************************************************************)
ExtCalled == ext.result # NoCall

ExtPages == ext.file.pdf.pages

\* the file is there, readable and parses, and has at least one page
ExtReadablePdf ==
    /\ ext.file.exists
    /\ ext.file.readable
    /\ ext.file.pdf.valid
    /\ Len(ExtPages) > 0

PageTexts(pages) == [i \in 1..Len(pages) |-> PageText(pages[i])]

NonRaising(pages) == SelectSeq(pages, LAMBDA p : p.kind # "raise")

\* C5: extract_text raises a not-found error for a missing path and a
\* PermissionError for an existing unreadable file, each reaching the caller
\* as its own error type, distinct from the generic wrapped error.
C5_OwnErrorTypes ==
    ExtCalled =>
        /\ (~ext.file.exists => ext.result.tag = "FileNotFoundError")
        /\ (ext.file.exists /\ ~ext.file.readable
                => ext.result.tag = "PermissionError")

\* C6: a page whose extraction throws contributes nothing and never aborts
\* the loop: whatever subset of the pages fails, the call returns normally
\* and its result is built from every non-failing page, each of which
\* appears in it (up to the final trim).
C6_PageFailuresSkipped ==
    (ExtCalled /\ ExtReadablePdf) =>
        /\ ext.result.tag = "ok"
        /\ ext.result.value = Strip(Join(PageTexts(NonRaising(ExtPages)), <<NL>>))
        /\ \A i \in 1..Len(ExtPages) :
              ExtPages[i].kind # "raise"
                  => Contains(ext.result.value, Strip(PageText(ExtPages[i])))

\* a failing page between two extracted ones
C6_Witness ==
    /\ ExtCalled
    /\ ExtReadablePdf
    /\ ExtPages = <<TextPage(Hello), RaisePage, TextPage(World)>>
    /\ ext.result = Ok(Hello \o <<NL>> \o World)

AllPagesExtract == \A i \in 1..Len(ExtPages) : ExtPages[i].kind # "raise"

\* C7: when no page fails, the result is the page texts in page order,
\* separated by a newline, with leading and trailing whitespace trimmed;
\* the pages "Hello" and "World" give exactly "Hello\nWorld".
C7_PagesInOrder ==
    (ExtCalled /\ ExtReadablePdf /\ AllPagesExtract) =>
        /\ ext.result = Ok(Strip(Join(PageTexts(ExtPages), <<NL>>)))
        /\ (ExtPages = <<TextPage(Hello), TextPage(World)>>
                => ext.result.value =
                     <<"H", "e", "l", "l", "o", NL, "W", "o", "r", "l", "d">>)

C7_Witness ==
    /\ ExtCalled
    /\ ExtReadablePdf
    /\ ExtPages = <<TextPage(Hello), TextPage(World)>>
    /\ ext.result.tag = "ok"
    /\ Len(ext.result.value) = 11

====
